---- MODULE Spec2Model ----
(***************************************************************************)
(* Instability: tool registry, probes and result envelopes, the external   *)
(* protocol server's request handlers, the session manager and the         *)
(* external-IP change tracker, modelled from the Python sources.           *)
(***************************************************************************)
EXTENDS Integers, Sequences, FiniteSets, TLC

VARIABLES
    objs,            \* ToolMetadata objects created so far (index = object identity)
    tools,           \* ToolRegistry._tools: name or alias -> object index, 0 = absent
    categories,      \* ToolRegistry._categories: category -> names appended
    external_tools,  \* ToolRegistry._external_tools: binary name -> "found" flag
    regResult,       \* how the last register_tool call ended
    regMeta,         \* the metadata handed to the last register_tool call
    mcp_mode,        \* os.environ MCP_MODE == '1'
    call,            \* the last execute_tool call and what it did
    auth_enabled,    \* MCPAuthenticator.auth_enabled
    request,         \* the last request handled by the protocol server
    sessions,        \* SessionManager.sessions, in insertion order
    cleanup_task,    \* SessionManager._cleanup_task is set
    sweepDue,        \* when the sweep's sleep(300) ends
    nextId,          \* next fresh session id (stands for uuid4)
    now,             \* wall clock, seconds
    ticks,           \* number of clock advances so far
    sessOp,          \* the last session-manager operation and what it did
    ipFile,          \* external_ip_history.json
    ipCalls,         \* fetched IP of each check_ip_change_status call so far
    ipReports,       \* "changed" returned by each call so far
    sanInput,        \* the string a sanitizer pass was first given
    sanText,         \* the string after the passes applied so far
    sanPrev,         \* the string before the last pass
    sanPass,         \* which pass is being applied: "mcp" or "text"
    sanCount,        \* how often it has been applied: 0, 1, or 2 for "twice or more"
    ipWriter,        \* a check_ip_change_status call inside save_ip_history
    ipSeen,          \* what a concurrent reader last found on disk
    ipGot,           \* what load_ip_history returned to that reader
    conversation,    \* start_interactive_session: the conversation list
    conversation_history, \* ChatbotSession.conversation_history
    last_activity,   \* ChatbotSession.last_activity
    pending,         \* process_message calls on the session: idle or awaiting the adapter
    turns,           \* user messages taken so far (numbers the entries)
    lastTurn,        \* the turn that finished last and what it did
    worker,          \* the executor thread running _process_sync for each call
    modelReply,      \* parse_tool_call: content, the model's reply
    parsed,          \* parse_tool_call: the tool name returned
    sweep,           \* a batch probe in progress and its lists
    cli,             \* instability.py: the subcommand run and the exit code
    inflight,        \* ids of the sessions whose process_message is awaiting
    checks           \* the two processes running check_ip_change_status

regVars  == <<objs, tools, categories, external_tools, regResult, regMeta, mcp_mode, call>>
srvVars  == <<auth_enabled, request>>
sessVars == <<sessions, cleanup_task, sweepDue, nextId, now, ticks, sessOp>>
ipVars   == <<ipFile, ipCalls, ipReports>>
sanVars  == <<sanInput, sanText, sanPrev, sanPass, sanCount>>
fileVars == <<ipWriter, ipSeen, ipGot>>
chatVars == <<conversation, conversation_history, last_activity, pending, turns, lastTurn, worker>>
parseVars == <<modelReply, parsed>>
overlapVars == <<inflight, checks>>
moreVars == <<parseVars, sweep, cli, overlapVars>>
baseVars == <<regVars, srvVars, sessVars, ipVars, sanVars, fileVars, chatVars>>
restVars == <<sanVars, fileVars, chatVars, moreVars>>
vars     == <<regVars, srvVars, sessVars, ipVars, restVars>>

None == "None"

(***************************************************************************)
(* Bounds of the model.                                                    *)
(***************************************************************************)
MaxRegs      == 2    \* ToolMetadata objects registered
max_sessions == 2    \* SessionManager(max_sessions=...), the capacity N
MaxCreates   == 3    \* sessions ever created
MaxTicks     == 2    \* clock advances
MaxIpCalls   == 5    \* check_ip_change_status calls
MaxTextLen   == 6    \* characters of a string handed to a sanitizer pass
MAX_CONVERSATION_LENGTH == 4  \* entries the interactive loop keeps after the two prompts
max_history  == 4    \* entries a session keeps
MaxTurns     == 3    \* user messages taken in one run
MaxContentLen == 5   \* characters of a model reply
MaxTargets   == 2    \* servers or endpoints of a batch probe
retries      == 1    \* monitor_ixp_connectivity(retries=...)
MaxChecks    == 3    \* check_ip_change_status calls of the two processes

(***************************************************************************)
(* Result envelopes.                                                       *)
(***************************************************************************)
EmptyMap == [k \in {} |-> "x"]

\* The envelope fields the properties read.  `ansi` tells whether a string field
\* (error_message, stderr) carries a terminal colour sequence.
Envelope(success, error_type, error_code, error_message, tool_name, options_used, ansi) ==
    [success |-> success, error_type |-> error_type, error_code |-> error_code,
     error_message |-> error_message, tool_name |-> tool_name,
     options_used |-> options_used, ansi |-> ansi]

NoEnvelope == Envelope(FALSE, "-", "-", "-", "-", EmptyMap, FALSE)

ErrorType == {"network", "system", "input", "execution", "configuration"}

\* A caller's string that carries a terminal colour sequence (ESC [ 3 1 m).
Escaped == {"ESC[31mnosuch"}
HasEscape(s) == s \in Escaped

\* create_error_response(error_type, error_code, message, tool_name=...) as
\* execute_tool calls it: no details, so options_used is {}.  The message is
\* copied into the envelope as it is; `embedded` is the caller's text that the
\* f-string of the message contains.
CreateErrorResponse(error_type, error_code, message, tool_name, embedded) ==
    Envelope(FALSE, error_type, error_code, message, tool_name, EmptyMap,
             HasEscape(embedded))

(***************************************************************************)
(* Probes of network/layer3_diagnostics.py.  A probe is called with the    *)
(* keyword arguments the registry passes; `outcome` is what the network or *)
(* the operating system did.                                               *)
(***************************************************************************)
Arg(args, k, default) == IF k \in DOMAIN args THEN args[k] ELSE default

Returned(env) == [kind |-> "return", env |-> env]
Raised        == [kind |-> "raise", env |-> NoEnvelope]

PingOutcomes == {"reply", "no_reply", "timeout", "error", "raise"}

PingHost(args, outcome) ==
    LET opts == [k \in {"count", "timeout"} |->
                    IF k = "count" THEN Arg(args, "count", "4")
                                   ELSE Arg(args, "timeout", "5")]
    IN  CASE outcome = "reply" ->
               Returned(Envelope(TRUE, None, None, None, "ping_host", opts, FALSE))
          [] outcome = "no_reply" ->
               Returned(Envelope(FALSE, "network", None, "Ping failed", "ping_host", opts, FALSE))
          [] outcome = "timeout" ->
               Returned(Envelope(FALSE, "timeout", None, "Ping timed out", "ping_host", opts, FALSE))
          [] outcome = "error" ->
               Returned(Envelope(FALSE, "execution", None, "Ping failed", "ping_host", opts, TRUE))
          [] OTHER -> Raised

PortOutcomes == {"open", "closed", "gaierror", "error", "raise"}

TestPortConnectivity(args, outcome) ==
    LET opts == [k \in {"port", "timeout"} |->
                    IF k = "port" THEN Arg(args, "port", "-")
                                  ELSE Arg(args, "timeout", "5")]
        name == "test_port_connectivity"
    IN  CASE outcome = "open" ->
               Returned(Envelope(TRUE, None, None, None, name, opts, FALSE))
          [] outcome = "closed" ->
               Returned(Envelope(FALSE, None, None, None, name, opts, FALSE))
          [] outcome = "gaierror" ->
               Returned(Envelope(FALSE, "invalid_target", None,
                                 "DNS resolution failed", name, opts, TRUE))
          [] outcome = "error" ->
               Returned(Envelope(FALSE, "execution", None,
                                 "Port connectivity test failed", name, opts, TRUE))
          [] OTHER -> Raised

\* The wrapper of an external scanner (pentest.<tool>_wrapper.run_<tool>_scan).
ScanOutcomes == {"done", "failed", "raise"}

RunExternalScan(args, outcome) ==
    CASE outcome = "done" ->
           Returned(Envelope(TRUE, None, None, None, "nmap", EmptyMap, FALSE))
      [] outcome = "failed" ->
           Returned(Envelope(FALSE, "execution", "command_failed",
                             "scan failed", "nmap", EmptyMap, FALSE))
      [] OTHER -> Raised

Functions == {"ping_host", "test_port_connectivity", "run_nmap_scan"}

Outcomes(fn) ==
    CASE fn = "ping_host"              -> PingOutcomes
      [] fn = "test_port_connectivity" -> PortOutcomes
      [] OTHER                         -> ScanOutcomes

\* The keyword parameters of each function and those without a default.
Signature(fn) ==
    CASE fn = "ping_host"              -> {"target", "count", "timeout", "silent"}
      [] fn = "test_port_connectivity" -> {"target", "port", "timeout", "silent"}
      [] OTHER                         -> {"target"}

Positional(fn) ==
    CASE fn = "ping_host"              -> {"target"}
      [] fn = "test_port_connectivity" -> {"target", "port"}
      [] OTHER                         -> {}

\* metadata.function_ref(**filtered_parameters): Python raises TypeError for an
\* unexpected keyword or a missing positional argument before the body runs.
CallFunctionRef(fn, args, outcome) ==
    IF ~(DOMAIN args \subseteq Signature(fn)) \/ ~(Positional(fn) \subseteq DOMAIN args)
    THEN Raised
    ELSE CASE fn = "ping_host"              -> PingHost(args, outcome)
           [] fn = "test_port_connectivity" -> TestPortConnectivity(args, outcome)
           [] OTHER                         -> RunExternalScan(args, outcome)

(***************************************************************************)
(* Tool metadata.  A module path is the sequence of its dotted segments.   *)
(***************************************************************************)
Layer3  == <<"network", "layer3_diagnostics">>
Wrapper == <<"pentest", "nmap_wrapper">>

ToolCategory == {"network_diagnostics", "pentesting", "system_info", "dns",
                 "web", "security", "email_diagnostics"}

Params(declared, required) == [k \in declared |-> k \in required]

ToolMetadata(name, function_name, module_path, category, parameters, modes, requires_external_tool, external_tool_name, aliases) ==
    [name |-> name, function_name |-> function_name, module_path |-> module_path,
     category |-> category, parameters |-> parameters, modes |-> modes,
     requires_external_tool |-> requires_external_tool,
     external_tool_name |-> external_tool_name, aliases |-> aliases,
     function_ref |-> None]

\* no register_tool call is waiting to be taken
NoMeta == ToolMetadata("-", "-", <<>>, "-", EmptyMap, {}, FALSE, None, <<>>)

BothModes == {"manual", "chatbot"}
PingParams == Params({"target", "count", "timeout", "silent"}, {"target"})
PortParams == Params({"target", "port", "timeout", "silent"}, {"target", "port"})

\* The metadata values callers hand to register_tool in this model: the two
\* layer-3 probes as discover_module_tools builds them from the signatures,
\* a hand-written manual-only entry with two aliases (one of them is another
\* tool's name), and three entries that register_tool refuses.
MetaCatalog ==
    { ToolMetadata("ping_host", "ping_host", Layer3, "network_diagnostics",
                   PingParams, BothModes, FALSE, None, <<>>),
      ToolMetadata("test_port_connectivity", "test_port_connectivity", Layer3,
                   "network_diagnostics", PortParams, BothModes, FALSE, None, <<>>),
      ToolMetadata("ping", "ping_host", Layer3, "network_diagnostics",
                   PingParams, {"manual"}, FALSE, None, <<"reach", "ping_host">>),
      ToolMetadata("", "ping_host", Layer3, "network_diagnostics",
                   PingParams, BothModes, FALSE, None, <<>>),
      ToolMetadata("check_ip_reputation", "check_ip_reputation",
                   <<"network_tools", "check_external_ip">>, "security",
                   EmptyMap, BothModes, FALSE, None, <<"ip_reputation">>),
      ToolMetadata("traceroute", "trace_route", Layer3, "network_diagnostics",
                   EmptyMap, BothModes, FALSE, None, <<>>) }

ExtNames  == {"nmap"}
ToolNames == {"ping_host", "test_port_connectivity", "ping", "reach", "nmap",
              "nosuch"} \cup Escaped

\* ToolRegistry._is_safe_module_path
SafePrefixes == {"network", "pentest", "memory", "core", "network_diagnostics",
                 "pentest.tool_detector"}

IsSafeModulePath(module_path) == module_path[1] \in SafePrefixes

\* importlib.import_module(path) followed by the module's functions; the
\* wrapper module exists only on a host that ships it.
Importable(module_path, wrapper) ==
    \/ module_path = Layer3
    \/ module_path = Wrapper /\ wrapper

ModuleFunctions(module_path) ==
    IF module_path = Layer3 THEN {"ping_host", "test_port_connectivity"}
    ELSE IF module_path = Wrapper THEN {"run_nmap_scan"}
    ELSE {}

(***************************************************************************)
(* ToolRegistry.register_tool                                              *)
(***************************************************************************)
\* How register_tool ends for this metadata: "ok" or the exception it raises.
RegisterOutcome(metadata, wrapper) ==
    IF metadata.name = "" THEN "ValueError"
    ELSE IF metadata.function_name = "" THEN "ValueError"
    ELSE IF metadata.module_path = <<>> THEN "ValueError"
    ELSE IF ~IsSafeModulePath(metadata.module_path) THEN "ValueError"
    ELSE IF ~Importable(metadata.module_path, wrapper) THEN "ImportError"
    ELSE IF metadata.function_name \notin ModuleFunctions(metadata.module_path)
         THEN "AttributeError"
    ELSE "ok"

\* for alias in metadata.aliases: if alias not in self._tools: ...
RECURSIVE RegisterAliases(_, _, _)
RegisterAliases(t, aliases, obj) ==
    IF aliases = <<>> THEN t
    ELSE LET alias == Head(aliases)
             t2 == IF t[alias] = 0 THEN [t EXCEPT ![alias] = obj] ELSE t
         IN  RegisterAliases(t2, Tail(aliases), obj)

\* self._tools after a successful register_tool of the new object `obj`
RegisteredTools(t, metadata, obj) ==
    RegisterAliases([t EXCEPT ![metadata.name] = obj], metadata.aliases, obj)

DoRegister(metadata, wrapper) ==
    LET out == RegisterOutcome(metadata, wrapper)
        obj == Len(objs) + 1
    IN  /\ regResult' = out
        /\ regMeta' = metadata
        /\ IF out = "ok"
           THEN /\ objs' = Append(objs,
                       [metadata EXCEPT !.function_ref = metadata.function_name])
                /\ tools' = RegisteredTools(tools, metadata, obj)
                /\ categories' = [categories EXCEPT ![metadata.category] =
                                      Append(@, metadata.name)]
           ELSE UNCHANGED <<objs, tools, categories>>

\* no call, request or registration is waiting to be taken by its caller
Idle == call.state = "idle" /\ request.method = "-" /\ regResult = "-"

RegisterTool(metadata) ==
    /\ Idle
    /\ Len(objs) < MaxRegs
    /\ DoRegister(metadata, FALSE)
    /\ UNCHANGED <<external_tools, mcp_mode, call>>
    /\ UNCHANGED <<srvVars, sessVars, ipVars, restVars>>

\* ToolRegistry.get_tool: the object index, 0 for None
GetTool(name) == tools[name]

(***************************************************************************)
(* ToolRegistry.integrate_external_tools.  `inventory` is what the detector *)
(* reports (binary -> found), "ImportError" when the detector is missing.  *)
(***************************************************************************)
Inventories == {[n \in S |-> f] : S \in SUBSET ExtNames, f \in BOOLEAN}

WrapperMetadata(tool_name) ==
    ToolMetadata(tool_name, "run_nmap_scan", Wrapper, "pentesting", EmptyMap,
                 BothModes, TRUE, tool_name, <<>>)

IntegrateExternalTools(detector, inventory, wrapper) ==
    /\ Idle
    /\ Len(objs) < MaxRegs
    /\ IF ~detector
       THEN UNCHANGED <<objs, tools, categories, external_tools, regResult, regMeta>>
       ELSE /\ external_tools' = inventory
            /\ IF /\ "nmap" \in DOMAIN inventory
                  /\ inventory["nmap"]
                  /\ wrapper
               THEN DoRegister(WrapperMetadata("nmap"), wrapper)
               ELSE UNCHANGED <<objs, tools, categories, regResult, regMeta>>
    /\ UNCHANGED <<mcp_mode, call>>
    /\ UNCHANGED <<srvVars, sessVars, ipVars, restVars>>

(***************************************************************************)
(* ToolRegistry.execute_tool                                               *)
(***************************************************************************)
ArgKeys == {"target", "port", "verbose"}
ArgValue(k) == IF k = "port" THEN "80" ELSE "x"
ArgMaps == {[k \in K |-> ArgValue(k)] : K \in SUBSET ArgKeys}
Modes   == {"manual", "chatbot", "all"}

\* a registry that admits every mode
AnyMode(m, mode) == TRUE

\* if mode not in metadata.modes
ModeAllowed(m, mode) == mode \in m.modes

\* metadata.requires_external_tool and external_tool_name not in _external_tools
ExternalMissing(m) ==
    m.requires_external_tool /\ m.external_tool_name \notin DOMAIN external_tools

\* a registry that passes the caller's map on unfiltered
KeepAll(m, parameters) == parameters

\* the loop that copies the declared keys of `parameters`
FilterParameters(m, parameters) ==
    [k \in DOMAIN parameters \cap DOMAIN m.parameters |-> parameters[k]]

\* the declared required parameters that were not supplied
MissingRequired(m, filtered) ==
    {k \in DOMAIN m.parameters : m.parameters[k] /\ k \notin DOMAIN filtered}

\* MCP mode forces silent=True on a tool that declares it
ForceSilent(m, filtered) ==
    IF mcp_mode /\ "silent" \in DOMAIN m.parameters
    THEN [k \in DOMAIN filtered \cup {"silent"} |->
              IF k = "silent" THEN "True" ELSE filtered[k]]
    ELSE filtered

\* ToolRegistry._sanitize_for_mcp: strips the colour sequences of every string
SanitizeForMcp(env) == [env EXCEPT !.ansi = FALSE]

Done(called, passed, probeRaised, result) ==
    [called |-> called, passed |-> passed, probeRaised |-> probeRaised,
     result |-> result]

\* the call of function_ref without the try/except around it
UnguardedCall(m, tool_name, args, outcome) ==
    LET r == CallFunctionRef(m.function_ref, args, outcome)
    IN  Done(TRUE, args, r.kind = "raise",
             IF r.kind = "return" /\ mcp_mode THEN Returned(SanitizeForMcp(r.env)) ELSE r)

\* the try/except around the call of function_ref
GuardedCall(m, tool_name, args, outcome) ==
    LET r == CallFunctionRef(m.function_ref, args, outcome)
    IN  IF r.kind = "raise"
        THEN Done(TRUE, args, TRUE,
                  Returned(CreateErrorResponse("execution", "command_failed",
                                "Tool execution failed", tool_name, "")))
        ELSE Done(TRUE, args, FALSE,
                  IF mcp_mode THEN Returned(SanitizeForMcp(r.env)) ELSE r)

NotCalled(env) == Done(FALSE, EmptyMap, FALSE, Returned(env))

ExecuteToolResult(tool_name, parameters, mode, outcome) ==
    IF GetTool(tool_name) = 0
    THEN NotCalled(CreateErrorResponse("input", "invalid_target",
                          "Tool not found", "tool_registry", tool_name))
    ELSE LET m == objs[GetTool(tool_name)]
             filtered == FilterParameters(m, parameters)
         IN  IF ~ModeAllowed(m, mode)
             THEN NotCalled(CreateErrorResponse("input", "invalid_target",
                                "Tool not available in mode", "tool_registry", tool_name))
             ELSE IF ExternalMissing(m)
             THEN NotCalled(CreateErrorResponse("system", "tool_missing",
                                "External tool not found", tool_name, m.external_tool_name))
             ELSE IF MissingRequired(m, filtered) # {}
             THEN NotCalled(CreateErrorResponse("input", "missing_parameter",
                                "Required parameter missing", tool_name, ""))
             ELSE IF m.function_ref # None
             THEN GuardedCall(m, tool_name, ForceSilent(m, filtered), outcome)
             ELSE NotCalled(CreateErrorResponse("system", "tool_missing",
                                "Tool function not available", tool_name, ""))

\* what the probe can do in this call; one value when the call never reaches it
OutcomesOf(tool_name, parameters, mode) ==
    IF ExecuteToolResult(tool_name, parameters, mode, "-").called
    THEN Outcomes(objs[GetTool(tool_name)].function_ref)
    ELSE {"-"}

IdleCall ==
    [state |-> "idle", tool_name |-> "-", parameters |-> EmptyMap, mode |-> "-",
     called |-> FALSE, passed |-> EmptyMap, probeRaised |-> FALSE,
     result |-> Returned(NoEnvelope)]

ExecuteTool(tool_name, parameters, mode, outcome) ==
    /\ Idle
    /\ LET d == ExecuteToolResult(tool_name, parameters, mode, outcome)
       IN  call' = [state |-> "returned", tool_name |-> tool_name,
                    parameters |-> parameters, mode |-> mode, called |-> d.called,
                    passed |-> d.passed, probeRaised |-> d.probeRaised,
                    result |-> d.result]
    /\ UNCHANGED <<objs, tools, categories, external_tools, regResult, regMeta, mcp_mode>>
    /\ UNCHANGED <<srvVars, sessVars, ipVars, restVars>>

NoRequest ==
    [method |-> "-", name |-> "-", header |-> None, response |-> "-",
     registry_invoked |-> FALSE, probe_called |-> FALSE, listed |-> {}]

\* the caller takes the result of the operation that just ended
TakeResult ==
    /\ ~Idle
    /\ call' = IdleCall
    /\ request' = NoRequest
    /\ regResult' = "-"
    /\ regMeta' = NoMeta
    /\ UNCHANGED <<objs, tools, categories, external_tools, mcp_mode>>
    /\ UNCHANGED <<auth_enabled, sessVars, ipVars, restVars>>

RegInit ==
    /\ objs = <<>>
    /\ tools = [n \in ToolNames |-> 0]
    /\ categories = [c \in ToolCategory |-> <<>>]
    /\ external_tools = EmptyMap
    /\ regResult = "-"
    /\ regMeta = NoMeta
    /\ call = IdleCall

RegNext ==
    \/ \E metadata \in MetaCatalog : RegisterTool(metadata)
    \/ \E detector \in BOOLEAN, inventory \in Inventories, wrapper \in BOOLEAN :
          IntegrateExternalTools(detector, inventory, wrapper)
    \/ \E tool_name \in ToolNames, parameters \in ArgMaps, mode \in Modes :
          \E outcome \in OutcomesOf(tool_name, parameters, mode) :
             ExecuteTool(tool_name, parameters, mode, outcome)
    \/ TakeResult

(***************************************************************************)
(* The external-protocol server: instability_mcp/mcp_server.py and auth.py *)
(***************************************************************************)
MCP_API_KEY == "secret"
HeaderValues == {None, "", "secret", "wrong"}

\* MCPAuthenticator.authenticate_request: TRUE when the request is accepted
AuthenticateRequest(provided_key) ==
    IF ~auth_enabled THEN TRUE
    ELSE IF provided_key = None \/ provided_key = "" THEN FALSE
    ELSE provided_key = MCP_API_KEY

\* ToolRegistry.get_available_tools(mode="chatbot"): the alias-free names
GetAvailableTools(mode) ==
    {n \in ToolNames :
        /\ tools[n] # 0
        /\ objs[tools[n]].name = n
        /\ (mode = "all" \/ mode \in objs[tools[n]].modes)
        /\ (objs[tools[n]].requires_external_tool =>
               /\ objs[tools[n]].external_tool_name \in DOMAIN external_tools
               /\ external_tools[objs[tools[n]].external_tool_name])}

\* handle_list_tools -> list_tools
ListTools(header) ==
    /\ Idle
    /\ request' = [method |-> "list_tools", name |-> "-", header |-> header,
                   response |-> "tools", registry_invoked |-> TRUE,
                   probe_called |-> FALSE,
                   listed |-> GetAvailableTools("chatbot") \cup {"chat", "start_session"}]
    /\ UNCHANGED <<auth_enabled, regVars, sessVars, ipVars, restVars>>

\* _handle_tool_execution: arguments = arguments.copy(); arguments["silent"] = True
WithSilent(arguments) ==
    [k \in DOMAIN arguments \cup {"silent"} |->
        IF k = "silent" THEN "True" ELSE arguments[k]]

\* handle_call_tool -> call_tool -> _handle_tool_execution for a registry tool
CallTool(name, arguments, header, outcome) ==
    /\ Idle
    /\ LET d == ExecuteToolResult(name, WithSilent(arguments), "chatbot", outcome)
       IN  /\ call' = [state |-> "returned", tool_name |-> name,
                       parameters |-> WithSilent(arguments), mode |-> "chatbot",
                       called |-> d.called, passed |-> d.passed,
                       probeRaised |-> d.probeRaised, result |-> d.result]
           /\ request' = [method |-> "call_tool", name |-> name, header |-> header,
                          response |-> "content", registry_invoked |-> TRUE,
                          probe_called |-> d.called, listed |-> {}]
    /\ UNCHANGED <<objs, tools, categories, external_tools, regResult, regMeta, mcp_mode>>
    /\ UNCHANGED <<auth_enabled, sessVars, ipVars, restVars>>

SrvInit == request = NoRequest

SrvNext ==
    \/ \E metadata \in MetaCatalog : RegisterTool(metadata)
    \/ \E detector \in BOOLEAN, inventory \in Inventories, wrapper \in BOOLEAN :
          IntegrateExternalTools(detector, inventory, wrapper)
    \/ \E header \in HeaderValues : ListTools(header)
    \/ \E name \in ToolNames, arguments \in ArgMaps, header \in HeaderValues :
          \E outcome \in OutcomesOf(name, WithSilent(arguments), "chatbot") :
             CallTool(name, arguments, header, outcome)
    \/ TakeResult

(***************************************************************************)
(* SessionManager: instability_mcp/session_manager.py.  `sessions` is the  *)
(* dict in insertion order; a session is its id and its last_activity.     *)
(***************************************************************************)
session_timeout == 3600
SweepInterval   == 300
TickSteps       == {300, 3600, 86400}

Ids(ss) == {ss[i].id : i \in 1..Len(ss)}
Index(ss, id) == CHOOSE i \in 1..Len(ss) : ss[i].id = id
Remove(ss, drop) == SelectSeq(ss, LAMBDA x : x.id \notin drop)

\* timedelta.seconds of a non-negative difference of d seconds: the seconds
\* within the day, the days are a separate field
TimedeltaSeconds(d) == d % 86400

\* the session touched last, the opposite choice of victim
NewestSessionId(ss) ==
    LET i == CHOOSE i \in 1..Len(ss) :
                 \A j \in 1..Len(ss) : ss[i].last_activity >= ss[j].last_activity
    IN  ss[i].id

\* min(self.sessions.keys(), key=last_activity): the first of the least
OldestSessionId(ss) ==
    LET i == CHOOSE i \in 1..Len(ss) :
                 /\ \A j \in 1..Len(ss) : ss[i].last_activity <= ss[j].last_activity
                 /\ \A j \in 1..(i - 1) : ss[j].last_activity > ss[i].last_activity
    IN  ss[i].id

\* a creation that never evicts
Grown(ss, id, t) == Append(ss, [id |-> id, last_activity |-> t])

\* create_session: the table after it, the new session stamped `t`
Created(ss, id, t) ==
    LET kept == IF Len(ss) >= max_sessions THEN Remove(ss, {OldestSessionId(ss)})
                ELSE ss
    IN  Append(kept, [id |-> id, last_activity |-> t])

\* a lookup that leaves last_activity alone
NotTouched(ss, id, t) == ss

\* session.last_activity = datetime.now() on the stored session
Touched(ss, id, t) == [ss EXCEPT ![Index(ss, id)].last_activity = t]

\* the ids the sweep puts in expired_sessions
Expired(ss, t) ==
    {ss[i].id : i \in {j \in 1..Len(ss) :
        TimedeltaSeconds(t - ss[j].last_activity) > session_timeout}}

Op(op, arg, ret) ==
    [op |-> op, arg |-> arg, pre |-> sessions, ret |-> ret, at |-> now]

\* _start_cleanup_task, when the task is not yet set
StartCleanup ==
    IF cleanup_task THEN UNCHANGED <<cleanup_task, sweepDue>>
    ELSE /\ cleanup_task' = TRUE
         /\ sweepDue' = now + SweepInterval

GetOrCreateSession(session_id) ==
    /\ StartCleanup
    /\ IF session_id # 0 /\ session_id \in Ids(sessions)
       THEN /\ sessions' = Touched(sessions, session_id, now)
            /\ sessOp' = Op("get_or_create", session_id, session_id)
            /\ UNCHANGED nextId
       ELSE /\ nextId <= MaxCreates
            /\ sessions' = Created(sessions, nextId, now)
            /\ sessOp' = Op("get_or_create", session_id, nextId)
            /\ nextId' = nextId + 1
    /\ UNCHANGED <<now, ticks>>
    /\ UNCHANGED <<regVars, srvVars, ipVars, restVars>>

\* create_session as _handle_start_session calls it
CreateSession ==
    /\ nextId <= MaxCreates
    /\ sessions' = Created(sessions, nextId, now)
    /\ sessOp' = Op("create", 0, nextId)
    /\ nextId' = nextId + 1
    /\ UNCHANGED <<cleanup_task, sweepDue, now, ticks>>
    /\ UNCHANGED <<regVars, srvVars, ipVars, restVars>>

\* one pass of cleanup_expired_sessions after its sleep(300)
CleanupSweep ==
    /\ cleanup_task
    /\ now >= sweepDue
    /\ sessions' = Remove(sessions, Expired(sessions, now))
    /\ sweepDue' = now + SweepInterval
    /\ sessOp' = Op("sweep", 0, 0)
    /\ UNCHANGED <<cleanup_task, nextId, now, ticks>>
    /\ UNCHANGED <<regVars, srvVars, ipVars, restVars>>

\* time passes
Tick(d) ==
    /\ ticks < MaxTicks
    /\ now' = now + d
    /\ ticks' = ticks + 1
    /\ UNCHANGED <<sessions, cleanup_task, sweepDue, nextId, sessOp>>
    /\ UNCHANGED <<regVars, srvVars, ipVars, restVars>>

SessInit ==
    /\ sessions = <<>>
    /\ cleanup_task = FALSE
    /\ sweepDue = 0
    /\ nextId = 1
    /\ now = 0
    /\ ticks = 0
    /\ sessOp = [op |-> "-", arg |-> 0, pre |-> <<>>, ret |-> 0, at |-> 0]

SessNext ==
    \/ \E session_id \in 0..(nextId - 1) : GetOrCreateSession(session_id)
    \/ CreateSession
    \/ CleanupSweep
    \/ \E d \in TickSteps : Tick(d)

(***************************************************************************)
(* Chat requests on the session table: mcp_server._handle_chat             *)
(***************************************************************************)
\* _handle_chat up to the await inside process_message: the session is looked
\* up or created, stamped, and its turn is handed to the adapter.  The model
\* follows one turn per session at a time.
HandleChat(session_id) ==
    /\ StartCleanup
    /\ LET stored == session_id # 0 /\ session_id \in Ids(sessions)
           id == IF stored THEN session_id ELSE nextId
       IN /\ id \notin inflight
          /\ ~stored => nextId <= MaxCreates
          /\ sessions' = IF stored THEN Touched(sessions, id, now) ELSE Created(sessions, id, now)
          /\ nextId' = IF stored THEN nextId ELSE nextId + 1
          /\ sessOp' = Op("chat", session_id, id)
          /\ inflight' = inflight \cup {id}
    /\ UNCHANGED <<now, ticks, checks>>
    /\ UNCHANGED <<regVars, srvVars, ipVars, sanVars, fileVars, chatVars, parseVars, sweep, cli>>

\* process_message returns on the session object it was called on, and
\* _handle_chat sends the response
ChatReturns(id) ==
    /\ id \in inflight
    /\ inflight' = inflight \ {id}
    /\ sessOp' = Op("chat_done", id, id)
    /\ UNCHANGED <<sessions, cleanup_task, sweepDue, nextId, now, ticks, checks>>
    /\ UNCHANGED <<regVars, srvVars, ipVars, sanVars, fileVars, chatVars, parseVars, sweep, cli>>

TurnInit == inflight = {}

\* A turn ends within its 30 s timeout, so the clock's coarse steps are taken
\* only while no turn is in flight.
TurnNext ==
    \/ \E session_id \in 0..(nextId - 1) : HandleChat(session_id)
    \/ \E id \in 1..MaxCreates : ChatReturns(id)
    \/ CreateSession
    \/ CleanupSweep
    \/ inflight = {} /\ \E d \in TickSteps : Tick(d)

(***************************************************************************)
(* External-IP change tracker: network_tools/check_if_external_ip_changed  *)
(***************************************************************************)
IPs == {"A", "B", "C"}

IpHistory(current_ip, current_timestamp, previous_ip, previous_timestamp) ==
    [current_ip |-> current_ip, current_timestamp |-> current_timestamp,
     previous_ip |-> previous_ip, previous_timestamp |-> previous_timestamp]

\* default_structure of load_ip_history; timestamp 0 stands for None
DefaultStructure == IpHistory(None, 0, None, 0)

\* The file on disk: `written` tells how much of the JSON document of `data`
\* it holds, "all", "part" or "none" (an empty file).
MissingFile == [exists |-> FALSE, written |-> "none", data |-> DefaultStructure]

\* load_ip_history: the default structure when the file is absent or json.load
\* raises JSONDecodeError
LoadIpHistory(file) ==
    IF ~file.exists THEN DefaultStructure
    ELSE IF file.written # "all" THEN DefaultStructure
    ELSE file.data

\* save_ip_history, run to its end
SaveIpHistory(ip_data) == [exists |-> TRUE, written |-> "all", data |-> ip_data]

\* open(config_file, 'w'): the file exists and is empty
Truncated == [exists |-> TRUE, written |-> "none", data |-> DefaultStructure]

\* an update that overwrites the current IP and never shifts it to previous
NoShift(file, new_ip, timestamp) ==
    [LoadIpHistory(file) EXCEPT !.current_ip = new_ip, !.current_timestamp = timestamp]

\* update_ip_history(new_ip): the history it builds from a fresh load
UpdatedHistory(file, new_ip, timestamp) ==
    LET h == LoadIpHistory(file)
        shifted == IF h.current_ip # None /\ h.current_ip # new_ip
                   THEN [h EXCEPT !.previous_ip = h.current_ip,
                                  !.previous_timestamp = h.current_timestamp]
                   ELSE h
    IN  [shifted EXCEPT !.current_ip = new_ip, !.current_timestamp = timestamp]

\* check_ip_change_status(current_ip): the "changed" flag it returns
Changed(file, current_ip) ==
    LET h == LoadIpHistory(file)
    IN  IF h.current_ip = None THEN FALSE ELSE current_ip # h.current_ip

NoWriter == [pc |-> "idle", ip |-> None, changed |-> FALSE, data |-> DefaultStructure]

\* one call of check_ip_change_status that fetched `current_ip`
CheckIpChangeStatus(current_ip) ==
    /\ ipWriter.pc = "idle"
    /\ Len(ipCalls) < MaxIpCalls
    /\ ipCalls' = Append(ipCalls, current_ip)
    /\ ipReports' = Append(ipReports, Changed(ipFile, current_ip))
    /\ ipFile' = SaveIpHistory(UpdatedHistory(ipFile, current_ip, Len(ipCalls) + 1))
    /\ UNCHANGED <<regVars, srvVars, sessVars, restVars>>

\* one call whose get_public_ip found no connectivity
CheckIpOffline ==
    /\ Len(ipCalls) < MaxIpCalls
    /\ ipCalls' = Append(ipCalls, "offline")
    /\ ipReports' = Append(ipReports, FALSE)
    /\ UNCHANGED ipFile
    /\ UNCHANGED <<regVars, srvVars, sessVars, restVars>>

IpInit ==
    /\ ipFile = MissingFile
    /\ ipCalls = <<>>
    /\ ipReports = <<>>
    /\ ipWriter = NoWriter
    /\ ipSeen = "-"
    /\ ipGot = DefaultStructure

\* check_ip_change_status up to the open(config_file, 'w') of save_ip_history
BeginSave(current_ip) ==
    /\ ipWriter.pc = "idle"
    /\ Len(ipCalls) < MaxIpCalls
    /\ ipWriter' = [pc |-> "dump", ip |-> current_ip,
                    changed |-> Changed(ipFile, current_ip),
                    data |-> UpdatedHistory(ipFile, current_ip, Len(ipCalls) + 1)]
    /\ ipFile' = Truncated
    /\ UNCHANGED <<ipCalls, ipReports, ipSeen, ipGot>>
    /\ UNCHANGED <<regVars, srvVars, sessVars, sanVars, chatVars, moreVars>>

\* json.dump has written a first chunk of the document
FlushPart ==
    /\ ipWriter.pc = "dump"
    /\ ipFile.written = "none"
    /\ ipFile' = [ipFile EXCEPT !.written = "part"]
    /\ UNCHANGED <<ipCalls, ipReports, fileVars>>
    /\ UNCHANGED <<regVars, srvVars, sessVars, sanVars, chatVars, moreVars>>

\* json.dump and the with block end; the call returns
EndSave ==
    /\ ipWriter.pc = "dump"
    /\ ipFile' = SaveIpHistory(ipWriter.data)
    /\ ipCalls' = Append(ipCalls, ipWriter.ip)
    /\ ipReports' = Append(ipReports, ipWriter.changed)
    /\ ipWriter' = NoWriter
    /\ UNCHANGED <<ipSeen, ipGot>>
    /\ UNCHANGED <<regVars, srvVars, sessVars, sanVars, chatVars, moreVars>>

\* load_ip_history run by another process or thread
ReadHistory ==
    /\ ipSeen' = IF ipFile.exists THEN ipFile.written ELSE "missing"
    /\ ipGot' = LoadIpHistory(ipFile)
    /\ UNCHANGED <<ipFile, ipCalls, ipReports, ipWriter>>
    /\ UNCHANGED <<regVars, srvVars, sessVars, sanVars, chatVars, moreVars>>

IpFileNext ==
    \/ \E current_ip \in IPs : BeginSave(current_ip)
    \/ FlushPart
    \/ EndSave
    \/ ReadHistory

IpNext ==
    \/ \E current_ip \in IPs : CheckIpChangeStatus(current_ip)
    \/ CheckIpOffline

(***************************************************************************)
(* Two processes running check_ip_change_status on the same history file   *)
(***************************************************************************)
Procs == {1, 2}
NoCheck == [pc |-> "idle", ip |-> None, base |-> None, overlapped |-> FALSE, changed |-> FALSE, data |-> DefaultStructure]
Running(p) == checks[p].pc \notin {"idle", "done"}
Peer(p) == 3 - p
otherVars == <<regVars, srvVars, sessVars, sanVars, fileVars, chatVars, parseVars, sweep, cli, inflight>>

\* an unreadable document: a shorter dump written over a longer one
Garbled == [exists |-> TRUE, written |-> "part", data |-> DefaultStructure]

\* get_public_ip returned current_ip; base is the stored current IP at that
\* moment, overlapped tells whether the other process is inside a call
GetPublicIp(p, current_ip) ==
    /\ ~Running(p)
    /\ Len(ipCalls) + (IF Running(Peer(p)) THEN 1 ELSE 0) < MaxChecks
    /\ checks' = [q \in Procs |->
            IF q = p
            THEN [NoCheck EXCEPT !.pc = "fetched", !.ip = current_ip,
                                 !.base = LoadIpHistory(ipFile).current_ip,
                                 !.overlapped = Running(Peer(p))]
            ELSE [checks[q] EXCEPT !.overlapped = @ \/ Running(q)]]
    /\ UNCHANGED <<ipVars, otherVars>>

\* ip_history = load_ip_history() and the comparison that decides the result
LoadExisting(p) ==
    /\ checks[p].pc = "fetched"
    /\ checks' = [checks EXCEPT ![p].pc = "loaded", ![p].changed = Changed(ipFile, checks[p].ip)]
    /\ UNCHANGED <<ipVars, otherVars>>

\* update_ip_history up to save_ip_history: a second load, shift and stamp
BuildUpdate(p) ==
    /\ checks[p].pc = "loaded"
    /\ checks' = [checks EXCEPT ![p].pc = "built",
                                ![p].data = UpdatedHistory(ipFile, checks[p].ip, Len(ipCalls) + 1)]
    /\ UNCHANGED <<ipVars, otherVars>>

\* save_ip_history: open(config_file, 'w')
OpenForWrite(p) ==
    /\ checks[p].pc = "built"
    /\ checks' = [checks EXCEPT ![p].pc = "open"]
    /\ ipFile' = Truncated
    /\ UNCHANGED <<ipCalls, ipReports, otherVars>>

\* json.dump, close, and the call returns.  When the other process wrote the
\* file after this one opened it, this dump lands on top of that document.
DumpAndReturn(p) ==
    /\ checks[p].pc = "open"
    /\ checks' = [checks EXCEPT ![p].pc = "done"]
    /\ \/ ipFile' = SaveIpHistory(checks[p].data)
       \/ ipFile.written = "all" /\ ipFile' = Garbled
    /\ ipCalls' = Append(ipCalls, checks[p].ip)
    /\ ipReports' = Append(ipReports, checks[p].changed)
    /\ UNCHANGED otherVars

RaceInit == checks = [p \in Procs |-> NoCheck]

RaceNext ==
    \/ \E p \in Procs, current_ip \in IPs : GetPublicIp(p, current_ip)
    \/ \E p \in Procs : LoadExisting(p)
    \/ \E p \in Procs : BuildUpdate(p)
    \/ \E p \in Procs : OpenForWrite(p)
    \/ \E p \in Procs : DumpAndReturn(p)

\* C30: when two overlapping checks both fetch f while the history's current
\* IP is c, exactly one of them reports the change, and the stored history
\* afterwards has current_ip = f and previous_ip = c.
C30_OneReportOfChange ==
    \A c, f \in IPs :
        (/\ c # f
         /\ \A p \in Procs : /\ checks[p].pc = "done"
                              /\ checks[p].overlapped
                              /\ checks[p].ip = f
                              /\ checks[p].base = c)
        => /\ checks[1].changed # checks[2].changed
           /\ LoadIpHistory(ipFile).current_ip = f
           /\ LoadIpHistory(ipFile).previous_ip = c

(***************************************************************************)
(* The output sanitizers on one string field.  A string is the sequence of *)
(* its characters; "ESC" is the byte 0x1B.                                  *)
(***************************************************************************)
Chars == {"ESC", "[", "1", "m", ":"}
Texts == UNION {[1..n -> Chars] : n \in 0..MaxTextLen}

\* the character classes of the two regular expressions of _sanitize_for_mcp
CsiParams   == {"0", "1", "2", "3", "4", "5", "6", "7", "8", "9", ";"}
CsiFinal    == {"m", "K"}
ControlChars == {"ESC", "NUL", "BEL", "BS", "VT", "FF", "DEL"}

\* the number of leading characters from position i that are in [0-9;]
RECURSIVE ParamRun(_, _)
ParamRun(t, i) ==
    IF i <= Len(t) /\ t[i] \in CsiParams THEN 1 + ParamRun(t, i + 1) ELSE 0

\* the length of the match of \x1b\[[0-9;]*[mK] at the head of t, 0 for none
CsiMatch(t) ==
    IF Len(t) >= 3 /\ t[1] = "ESC" /\ t[2] = "["
    THEN LET k == ParamRun(t, 3)
         IN  IF 3 + k <= Len(t) /\ t[3 + k] \in CsiFinal THEN 3 + k ELSE 0
    ELSE 0

\* re.sub(r'\x1b\[[0-9;]*[mK]', '', value): the matches found left to right
RECURSIVE StripAnsi(_)
StripAnsi(t) ==
    IF t = <<>> THEN <<>>
    ELSE IF CsiMatch(t) > 0 THEN StripAnsi(SubSeq(t, CsiMatch(t) + 1, Len(t)))
    ELSE <<Head(t)>> \o StripAnsi(Tail(t))

\* a control pass that removes nothing
KeepControl(t) == t

\* re.sub(r'[\x00-\x08\x0B\x0C\x0E-\x1F\x7F]', '', clean_value)
StripControl(t) == SelectSeq(t, LAMBDA c : c \notin ControlChars)

\* what _sanitize_for_mcp does to a string value
SanitizeString(t) == StripControl(StripAnsi(t))

\* text.replace(old, new) for a one-character `old`
RECURSIVE Replace(_, _, _)
Replace(t, old, new) ==
    IF t = <<>> THEN <<>>
    ELSE (IF Head(t) = old THEN new ELSE <<Head(t)>>) \o Replace(Tail(t), old, new)

\* text.replace("::", "--")
RECURSIVE ReplaceDouble(_)
ReplaceDouble(t) ==
    IF Len(t) < 2 THEN t
    ELSE IF t[1] = ":" /\ t[2] = ":"
         THEN <<"-", "-">> \o ReplaceDouble(SubSeq(t, 3, Len(t)))
    ELSE <<Head(t)>> \o ReplaceDouble(Tail(t))

\* len(text.split(":"))
SplitCount(t) == 1 + Cardinality({i \in 1..Len(t) : t[i] = ":"})

HasDouble(t) == \E i \in 1..(Len(t) - 1) : t[i] = ":" /\ t[i + 1] = ":"

\* InstabilityChatbotMCPServer._sanitize_text_content
SanitizeTextContent(t) ==
    IF SplitCount(t) > 1 /\ SplitCount(t) >= 6 THEN Replace(t, ":", <<"-">>)
    ELSE IF SplitCount(t) > 1
         THEN IF HasDouble(t) THEN Replace(ReplaceDouble(t), ":", <<"-">>)
              ELSE Replace(t, ":", <<" ", "-">>)
    ELSE t

Again(n) == IF n < 2 THEN n + 1 ELSE n

\* _sanitize_for_mcp applied to the string, for the first time or once more
ApplySanitizeForMcp ==
    /\ sanPass \in {"-", "mcp"}
    /\ sanPass' = "mcp"
    /\ sanPrev' = sanText
    /\ sanText' = SanitizeString(sanText)
    /\ sanCount' = Again(sanCount)
    /\ UNCHANGED <<sanInput, fileVars, chatVars, moreVars, regVars, srvVars, sessVars, ipVars>>

\* _sanitize_text_content applied to the string, for the first time or once more
ApplySanitizeTextContent ==
    /\ sanPass \in {"-", "text"}
    /\ sanPass' = "text"
    /\ sanPrev' = sanText
    /\ sanText' = SanitizeTextContent(sanText)
    /\ sanCount' = Again(sanCount)
    /\ UNCHANGED <<sanInput, fileVars, chatVars, moreVars, regVars, srvVars, sessVars, ipVars>>

NoText ==
    /\ sanInput = <<>>
    /\ sanText = <<>>
    /\ sanPrev = <<>>
    /\ sanPass = "-"
    /\ sanCount = 0

SanInit ==
    /\ sanInput \in Texts
    /\ sanText = sanInput
    /\ sanPrev = sanInput
    /\ sanPass = "-"
    /\ sanCount = 0

SanNext == ApplySanitizeForMcp \/ ApplySanitizeTextContent

(***************************************************************************)
(* Properties of ToolRegistry.execute_tool                                 *)
(***************************************************************************)
\* the metadata object the last call's name resolves to, 0 when it does not
CallObj == tools[call.tool_name]

\* C1: execute_tool never raises: every call returns an envelope, and when the
\* probe function raised, the envelope has success false and error_type
\* "execution".
C1_NeverRaises ==
    call.state = "returned" =>
        /\ call.result.kind = "return"
        /\ call.probeRaised =>
              /\ call.result.env.success = FALSE
              /\ call.result.env.error_type = "execution"

\* a call whose probe raised has returned
C1_Witness == call.state = "returned" /\ call.called /\ call.probeRaised

\* C2: every envelope a tool invocation returns has success true exactly when
\* error_type is null, and error_type null exactly when error_message is null.
C2_EnvelopeConsistent ==
    call.state = "returned" /\ call.result.kind = "return" =>
        /\ call.result.env.success <=> (call.result.env.error_type = None)
        /\ (call.result.env.error_type = None) <=> (call.result.env.error_message = None)

\* C3: the probe is called only when the name resolves, the mode is one of the
\* tool's modes and every required parameter is supplied; an unknown name or a
\* disallowed mode gets input.invalid_target, a missing required parameter (of
\* a tool whose external binary is not missing) input.missing_parameter, and in
\* these cases the probe is not called.
C3_ChecksBeforeProbe ==
    call.state = "returned" =>
        LET known   == CallObj # 0
            m       == objs[CallObj]
            modeOk  == call.mode \in m.modes
            missing == \E k \in DOMAIN m.parameters :
                           m.parameters[k] /\ k \notin DOMAIN call.parameters
            extOk   == m.requires_external_tool =>
                           m.external_tool_name \in DOMAIN external_tools
            e       == call.result.env
        IN  /\ call.called => known /\ modeOk /\ ~missing
            /\ ~known \/ ~modeOk =>
                  /\ ~call.called
                  /\ ~e.success
                  /\ e.error_type = "input"
                  /\ e.error_code = "invalid_target"
            /\ known /\ modeOk /\ extOk /\ missing =>
                  /\ ~call.called
                  /\ ~e.success
                  /\ e.error_type = "input"
                  /\ e.error_code = "missing_parameter"

\* a call of a registered tool in a mode the tool does not allow has returned
C3_Witness ==
    /\ call.state = "returned"
    /\ CallObj # 0
    /\ call.mode \notin objs[CallObj].modes
    /\ call.parameters # EmptyMap

\* C4: after any registrations, every alias of a registered tool resolves to
\* the very object the tool's name resolves to.
C4_AliasIdentity ==
    \A i \in 1..Len(objs) :
        tools[objs[i].name] = i =>
            \A j \in 1..Len(objs[i].aliases) : tools[objs[i].aliases[j]] = i

\* C5: a key of the caller's map that the tool does not declare is neither
\* passed to the probe nor present in options_used of the returned envelope.
C5_UndeclaredDropped ==
    call.state = "returned" /\ CallObj # 0 =>
        \A k \in DOMAIN call.parameters :
            k \notin DOMAIN objs[CallObj].parameters =>
                /\ k \notin DOMAIN call.passed
                /\ k \notin DOMAIN call.result.env.options_used

\* the probe ran in a call that supplied an undeclared key
C5_Witness ==
    /\ call.state = "returned"
    /\ call.called
    /\ ~call.probeRaised
    /\ \E k \in DOMAIN call.parameters : k \notin DOMAIN objs[CallObj].parameters

\* C15: in MCP mode every envelope execute_tool returns, from a probe or from
\* one of the registry's own error paths, carries no terminal colour sequence.
C15_SanitizedInMcpMode ==
    mcp_mode /\ call.state = "returned" /\ call.result.kind = "return" =>
        ~call.result.env.ansi

\* the last register_tool call passed the validation of name, function name
\* and module path, and its function cannot be resolved by import
Unresolvable ==
    /\ regResult # "-"
    /\ regMeta.name # ""
    /\ regMeta.function_name # ""
    /\ regMeta.module_path # <<>>
    /\ IsSafeModulePath(regMeta.module_path)
    /\ \/ ~Importable(regMeta.module_path, FALSE)
       \/ regMeta.function_name \notin ModuleFunctions(regMeta.module_path)

\* C17: registering a tool whose function cannot be resolved does not raise;
\* the tool is listed under its name with function_ref unresolved.
C17_UnresolvedStaysListed ==
    Unresolvable =>
        /\ regResult = "ok"
        /\ tools[regMeta.name] # 0
        /\ objs[tools[regMeta.name]].function_ref = None

\* C18: a call of a tool that requires an external binary which is not present
\* on the host (not reported, or reported as not found) returns
\* system.tool_missing and does not call the probe.
C18_MissingBinary ==
    /\ call.state = "returned"
    /\ CallObj # 0
    /\ call.mode \in objs[CallObj].modes
    /\ objs[CallObj].requires_external_tool
    /\ \/ objs[CallObj].external_tool_name \notin DOMAIN external_tools
       \/ ~external_tools[objs[CallObj].external_tool_name]
    => /\ ~call.called
       /\ call.result.env.error_type = "system"
       /\ call.result.env.error_code = "tool_missing"

\* C19: the error_type of every failed envelope is one of the five category
\* tags network, system, input, execution, configuration.
C19_CategoryTags ==
    call.state = "returned" /\ call.result.kind = "return" /\ ~call.result.env.success =>
        call.result.env.error_type \in ErrorType

(***************************************************************************)
(* Properties of the sanitizers                                            *)
(***************************************************************************)
\* C16: applying a sanitizer pass twice gives what applying it once gives, for
\* the registry's ANSI/control-character pass and for the server's colon pass.
C16_Idempotent == sanCount = 2 => sanText = sanPrev

\* the ANSI/control pass was applied twice to a string it had to change
C16_Witness == sanCount = 2 /\ sanPass = "mcp" /\ sanText # sanInput

(***************************************************************************)
(* Properties of the protocol server                                       *)
(***************************************************************************)
\* C6: with authentication enabled, a list_tools or call_tool request whose
\* header is missing or differs from the secret is answered authentication_failed
\* and reaches neither the registry nor a probe.
C6_AuthEnforced ==
    /\ auth_enabled
    /\ request.method # "-"
    /\ request.header # MCP_API_KEY
    => /\ request.response = "authentication_failed"
       /\ ~request.registry_invoked
       /\ ~request.probe_called

C14_AtomicReplace ==
    /\ ipSeen \in {"-", "missing", "all"}
    /\ ipSeen = "missing" => ipGot = DefaultStructure

(***************************************************************************)
(* Properties of the session manager                                       *)
(***************************************************************************)
\* the last operation created a session
CreatedNow ==
    /\ sessOp.op \in {"create", "get_or_create"}
    /\ sessOp.ret \notin Ids(sessOp.pre)

\* the ids that were in the table before the last operation and are gone
Evicted == Ids(sessOp.pre) \ Ids(sessions)

\* C8: creating a session in a table that holds the capacity evicts exactly
\* one session, one whose last_activity is the oldest; creating one in a table
\* below the capacity evicts none.
C8_EvictOldest ==
    CreatedNow =>
        IF Len(sessOp.pre) >= max_sessions
        THEN \E i \in 1..Len(sessOp.pre) :
                /\ Evicted = {sessOp.pre[i].id}
                /\ \A j \in 1..Len(sessOp.pre) :
                      sessOp.pre[i].last_activity <= sessOp.pre[j].last_activity
        ELSE Evicted = {}

\* a session was created in a full table whose sessions differ in age
C8_Witness ==
    /\ CreatedNow
    /\ Len(sessOp.pre) >= max_sessions
    /\ \E i, j \in 1..Len(sessOp.pre) :
          sessOp.pre[i].last_activity < sessOp.pre[j].last_activity

\* C9: a sweep removes every session idle for longer than the timeout, however
\* long it has been idle, and no session idle for at most the timeout.
C9_SweepRemovesExpired ==
    sessOp.op = "sweep" =>
        \A i \in 1..Len(sessOp.pre) :
            (sessOp.at - sessOp.pre[i].last_activity > session_timeout)
                <=> sessOp.pre[i].id \in Evicted

\* C10: get_or_create_session(id) returns the stored session without creating
\* or evicting when id is in the table, a new session otherwise; the returned
\* session's last_activity is the time of the call.
C10_GetOrCreate ==
    sessOp.op = "get_or_create" =>
        /\ sessOp.ret \in Ids(sessions)
        /\ sessions[Index(sessions, sessOp.ret)].last_activity = sessOp.at
        /\ IF sessOp.arg # 0 /\ sessOp.arg \in Ids(sessOp.pre)
           THEN /\ sessOp.ret = sessOp.arg
                /\ Len(sessions) = Len(sessOp.pre)
                /\ \A i \in 1..Len(sessions) :
                      /\ sessions[i].id = sessOp.pre[i].id
                      /\ sessions[i].id # sessOp.ret =>
                            sessions[i].last_activity = sessOp.pre[i].last_activity
           ELSE sessOp.ret \notin Ids(sessOp.pre)

\* a stored session was looked up some time after it was last active
C10_Witness ==
    /\ sessOp.op = "get_or_create"
    /\ sessOp.arg \in Ids(sessOp.pre)
    /\ sessOp.pre[Index(sessOp.pre, sessOp.arg)].last_activity < sessOp.at

\* C26: once a first session has been created, by get_or_create_session or by
\* create_session (start_session), the expiry sweep is running.
C26_SweepRunsFromFirstCreation == nextId > 1 => cleanup_task

\* C29: the table never holds more than max_sessions sessions, whatever the
\* order of get_or_create_session, create_session and sweep passes.
C29_AtMostMaxSessions == Len(sessions) <= max_sessions

\* C28: a session with a turn in flight stays in the session table, through
\* creations at capacity and through sweep passes.
C28_InFlightSessionKept == inflight \subseteq Ids(sessions)

\* a session was created in a table that already held max_sessions
C29_Witness ==
    /\ CreatedNow
    /\ Len(sessOp.pre) = max_sessions
    /\ Len(sessions) = max_sessions

(***************************************************************************)
(* Conversation: the interactive loop and a session's process_message      *)
(***************************************************************************)
\* User texts as characters: the heuristic lower-cases the text and looks for
\* each keyword as a substring.
Messages == {<<"t", "I", "P">>, <<"h", "i">>}
network_keywords == {<<"i", "p">>, <<"n", "a", "t">>}
NoThink == <<>>
Lower(t) == [i \in 1..Len(t) |-> CASE t[i] = "I" -> "i" [] t[i] = "P" -> "p" [] OTHER -> t[i]]
Contains(t, k) == \E i \in 1..Len(t) : i + Len(k) - 1 <= Len(t) /\ SubSeq(t, i, i + Len(k) - 1) = k
IsNetworkQuestion(user_message) == \E keyword \in network_keywords : Contains(user_message, keyword)

\* One entry of a history; n is the user message it belongs to.
Message(role, content, n) == [role |-> role, content |-> content, n |-> n]
SystemPrompts == <<Message("system", "system_message", 0), Message("system", "tool_system_message", 0)>>

Oldest(s, k) == IF Len(s) > k THEN SubSeq(s, 1, k) ELSE s
\* s[-k:]
Recent(s, k) == IF Len(s) > k THEN SubSeq(s, Len(s) - k + 1, Len(s)) ELSE s
KeepOldest(h) == IF Len(h) > max_history THEN SubSeq(h, 1, max_history) ELSE h
TrimConversation(c) == IF Len(c) > MAX_CONVERSATION_LENGTH + 2 THEN SubSeq(c, 1, 2) \o Recent(c, MAX_CONVERSATION_LENGTH) ELSE c
TrimHistory(h) == IF Len(h) > max_history THEN Recent(h, max_history) ELSE h

InteractiveOutcomes == {"text", "tool_ok", "follow_up_error", "tool_error", "tool_not_found", "chat_error"}
SessionOutcomes == {"text", "tool_ok", "tool_error", "chat_error", "timeout"}
\* process_message calls that can be open on the session at once
Calls == {1, 2}
Resting == [pc |-> "idle", n |-> 0, prompt |-> NoThink]
NoWorker == [stage |-> "-", result |-> "-", abandoned |-> FALSE, tool_after_stub |-> FALSE]
NoTurn == [path |-> "-", n |-> 0, input |-> NoThink, reply |-> "-", answer |-> "-", before |-> <<>>, after |-> <<>>]

\* what the model replied with, if it replied
ReplyKind(outcome) == CASE outcome = "text" -> "text" [] outcome \in {"chat_error", "timeout"} -> "none" [] OTHER -> "tool_call"

\* A process runs one entry point: instability.py runs the interactive loop
\* and holds no session, the protocol server holds sessions and never runs
\* the loop.
LoopProcess == conversation_history = <<>> /\ \A c \in Calls : pending[c].pc = "idle"
ServerProcess == conversation = SystemPrompts

\* One pass of the interactive loop for an input that is not a command.
\* think is the pending /think text, NoThink when there is none.
ChatTurn(user_input, think, outcome) ==
    /\ LoopProcess
    /\ turns < MaxTurns
    /\ LET n == turns + 1
           asked == Append(conversation, Message("user", "input", n))
           sent == IF think = NoThink THEN asked ELSE Append(asked, Message("system", "think", n))
           user_message == Lower(IF think = NoThink THEN user_input ELSE think)
           violation == outcome = "text" /\ IsNetworkQuestion(user_message)
           called == sent \o <<Message("assistant", "reply", n), Message("system", "tool_result", n)>>
           grown == CASE outcome = "chat_error" -> sent
                      [] outcome = "tool_ok" -> Append(called, Message("assistant", "follow_up", n))
                      [] outcome = "follow_up_error" -> Append(called, Message("system", "error_msg", n))
                      [] outcome \in {"tool_error", "tool_not_found"} -> Append(sent, Message("system", "error_msg", n))
                      [] violation -> Append(sent, Message("system", "note", n))
                      [] OTHER -> Append(sent, Message("assistant", "reply", n))
           kept == IF outcome = "chat_error" \/ violation THEN grown ELSE TrimConversation(grown)
           shown == CASE outcome = "tool_ok" -> "follow_up"
                      [] outcome = "text" /\ ~violation -> "reply"
                      [] OTHER -> "error_msg"
       IN /\ conversation' = kept
          /\ turns' = n
          /\ lastTurn' = [path |-> "interactive", n |-> n, input |-> user_input, reply |-> ReplyKind(outcome), answer |-> shown, before |-> grown, after |-> kept]
    /\ UNCHANGED <<conversation_history, last_activity, pending, worker>>
    /\ UNCHANGED <<regVars, srvVars, sessVars, ipVars, sanVars, fileVars, moreVars>>

\* process_message up to its await: the user entry is appended and the
\* adapter's run is handed to the executor.
ProcessMessage(c, prompt) ==
    /\ ServerProcess
    /\ turns < MaxTurns
    /\ pending[c].pc = "idle"
    /\ worker[c].stage = "-"
    /\ worker' = [worker EXCEPT ![c] = [NoWorker EXCEPT !.stage = "llm"]]
    /\ last_activity' = now
    /\ turns' = turns + 1
    /\ conversation_history' = Append(conversation_history, Message("user", "input", turns + 1))
    /\ pending' = [pending EXCEPT ![c] = [pc |-> "awaiting", n |-> turns + 1, prompt |-> prompt]]
    /\ UNCHANGED <<conversation, lastTurn>>
    /\ UNCHANGED <<regVars, srvVars, sessVars, ipVars, sanVars, fileVars, moreVars>>

\* the text the adapter hands back
AdapterMessage(outcome) == CASE outcome = "text" -> "reply" [] outcome = "tool_ok" -> "follow_up" [] outcome = "timeout" -> "timed_out" [] OTHER -> "error_msg"

\* _process_sync in its executor thread: the model's reply arrives (text, an
\* exception, or a tool call), then the tool runs and the follow-up is made.
\* wait_for's timeout does not stop the thread.
WorkerStep(c, result) ==
    /\ \/ worker[c].stage = "llm" /\ result \in {"text", "chat_error", "tool_call"}
       \/ worker[c].stage = "tool" /\ result \in {"tool_ok", "tool_error"}
    /\ worker' = [worker EXCEPT ![c] = IF result = "tool_call" THEN [@ EXCEPT !.stage = "tool"]
                                       ELSE [@ EXCEPT !.stage = "done", !.result = result, !.tool_after_stub = @ \/ (worker[c].abandoned /\ worker[c].stage = "tool")]]
    /\ UNCHANGED <<conversation, conversation_history, last_activity, pending, turns, lastTurn>>
    /\ UNCHANGED <<regVars, srvVars, sessVars, ipVars, sanVars, fileVars, moreVars>>

\* the result of a thread whose call has timed out is dropped
WorkerDiscarded(c) ==
    /\ worker[c].stage = "done" /\ worker[c].abandoned
    /\ worker' = [worker EXCEPT ![c] = NoWorker]
    /\ UNCHANGED <<conversation, conversation_history, last_activity, pending, turns, lastTurn>>
    /\ UNCHANGED <<regVars, srvVars, sessVars, ipVars, sanVars, fileVars, moreVars>>

\* process_message after its await: the adapter's message (the thread's
\* result, or the timeout text while the thread is still running) is appended
\* as the assistant entry, the history is trimmed, the response is returned.
AdapterReturns(c, outcome) ==
    /\ pending[c].pc = "awaiting"
    /\ IF outcome = "timeout" THEN worker[c].stage \in {"llm", "tool"} ELSE worker[c].stage = "done" /\ worker[c].result = outcome
    /\ worker' = [worker EXCEPT ![c] = IF outcome = "timeout" THEN [@ EXCEPT !.abandoned = TRUE] ELSE NoWorker]
    /\ LET grown == Append(conversation_history, Message("assistant", AdapterMessage(outcome), pending[c].n))
           kept == TrimHistory(grown)
       IN /\ conversation_history' = kept
          /\ lastTurn' = [path |-> "session", n |-> pending[c].n, input |-> pending[c].prompt, reply |-> ReplyKind(outcome), answer |-> AdapterMessage(outcome), before |-> grown, after |-> kept]
    /\ pending' = [pending EXCEPT ![c] = Resting]
    /\ UNCHANGED <<conversation, last_activity, turns>>
    /\ UNCHANGED <<regVars, srvVars, sessVars, ipVars, sanVars, fileVars, moreVars>>

ChatInit ==
    /\ conversation = SystemPrompts
    /\ conversation_history = <<>>
    /\ last_activity = 0
    /\ pending = [c \in Calls |-> Resting]
    /\ worker = [c \in Calls |-> NoWorker]
    /\ turns = 0
    /\ lastTurn = NoTurn

ChatNext ==
    \/ \E user_input \in Messages, think \in Messages \cup {NoThink}, outcome \in InteractiveOutcomes : ChatTurn(user_input, think, outcome)
    \/ \E c \in Calls, prompt \in Messages : ProcessMessage(c, prompt)
    \/ \E c \in Calls, result \in {"text", "chat_error", "tool_call", "tool_ok", "tool_error"} : WorkerStep(c, result)
    \/ \E c \in Calls : WorkerDiscarded(c)
    \/ \E c \in Calls, outcome \in SessionOutcomes : AdapterReturns(c, outcome)

\* positions in h of the entries of the given role that belong to user message n
Entries(h, role, n) == {i \in 1..Len(h) : h[i].role = role /\ h[i].n = n}

\* C27: a process_message call appends its user entry before its adapter run
\* starts, and when it returns the history holds exactly one assistant entry
\* of that turn, placed after the turn's user entry.
C27_AssistantFollowsUser ==
    /\ [](lastTurn.path = "session" =>
            /\ Cardinality(Entries(lastTurn.after, "assistant", lastTurn.n)) = 1
            /\ Cardinality(Entries(lastTurn.after, "user", lastTurn.n)) <= 1
            /\ \A i \in Entries(lastTurn.after, "user", lastTurn.n), j \in Entries(lastTurn.after, "assistant", lastTurn.n) : i < j
            /\ lastTurn.after[Len(lastTurn.after)] = Message("assistant", lastTurn.answer, lastTurn.n))
    /\ [][\A c \in Calls : worker[c].stage = "-" /\ worker'[c].stage # "-" =>
              /\ Len(conversation_history') = Len(conversation_history) + 1
              /\ conversation_history'[Len(conversation_history')] = Message("user", "input", pending'[c].n)]_vars

\* a call returned the timeout text while another call's user entry stood
\* between its own user entry and its assistant entry
C27_Witness ==
    /\ lastTurn.path = "session" /\ lastTurn.answer = "timed_out"
    /\ \E i \in Entries(lastTurn.after, "user", lastTurn.n) : lastTurn.after[i + 1].role = "user"

\* C25: once a turn has timed out and its stub response has been returned, no
\* tool is executed on behalf of that turn.
C25_NoWorkAfterTimeout == \A c \in Calls : ~worker[c].tool_after_stub

\* C11: after every finished turn, whatever its outcome, the history holds at
\* most 20 entries (not counting the interactive loop's two leading prompts).
C11_HistoryBounded ==
    /\ lastTurn.path = "interactive" => Len(lastTurn.after) <= MAX_CONVERSATION_LENGTH + 2
    /\ lastTurn.path = "session" => Len(lastTurn.after) <= max_history

\* a trim dropped entries at the end of the last finished turn
Trimmed == lastTurn.path # "-" /\ lastTurn.after # lastTurn.before

\* C12: whenever a history is trimmed, its two leading system prompts stay
\* the first two entries and the rest is the most recent entries in order.
C12_LeadingPromptsKept ==
    Trimmed =>
        /\ SubSeq(lastTurn.after, 1, 2) = SubSeq(lastTurn.before, 1, 2)
        /\ \A i \in 1..2 : lastTurn.after[i].role = "system"
        /\ \A i \in 3..Len(lastTurn.after) :
              lastTurn.after[i] = lastTurn.before[Len(lastTurn.before) - Len(lastTurn.after) + i]

\* C12, as the code has it: the interactive loop's trim keeps the two leading
\* system prompts and the most recent MAX_CONVERSATION_LENGTH entries in
\* order; a session's history holds no system prompt, and its trim keeps the
\* most recent max_history entries in order.
C12_RecentKept ==
    Trimmed =>
        LET kept == lastTurn.after
            lead == IF lastTurn.path = "interactive" THEN 2 ELSE 0
        IN /\ Len(kept) = lead + (IF lead = 2 THEN MAX_CONVERSATION_LENGTH ELSE max_history)
           /\ \A i \in 1..lead : kept[i] = SystemPrompts[i]
           /\ \A i \in (lead + 1)..Len(kept) : kept[i] = lastTurn.before[Len(lastTurn.before) - Len(kept) + i]
           /\ lead = 0 => \A i \in 1..Len(kept) : kept[i].role # "system"

\* a session's trim dropped its oldest entries
C12_Witness ==
    /\ lastTurn.path = "session"
    /\ Len(lastTurn.before) > max_history
    /\ lastTurn.after # lastTurn.before

\* C13: at most one process_message call of a session is between appending
\* its user entry and appending its assistant entry.
C13_OneTurnInFlight == Cardinality({c \in Calls : pending[c].pc = "awaiting"}) <= 1

\* C20: a reply without a tool call to a user message that matches the
\* keyword heuristic is not appended and not given as the answer; a
\* corrective system note is appended instead and the turn ends.
C20_ProtocolViolation ==
    lastTurn.path # "-" /\ lastTurn.reply = "text" /\ IsNetworkQuestion(Lower(lastTurn.input)) =>
        /\ lastTurn.answer # "reply"
        /\ Message("assistant", "reply", lastTurn.n) \notin {lastTurn.after[i] : i \in 1..Len(lastTurn.after)}
        /\ lastTurn.after[Len(lastTurn.after)] = Message("system", "note", lastTurn.n)

(***************************************************************************)
(* parse_tool_call: the tool name of a model reply                         *)
(***************************************************************************)
\* A reply as a sequence of characters; the anchors TOOL: and ARGS:, the
\* newline (NL) and the blank (SP) each count as one character.
ContentChars == {"TOOL:", "ARGS:", "NL", "SP", "(", ")", "p"}
Contents == UNION {[1..n -> ContentChars] : n \in 0..MaxContentLen}
Whitespace == {"SP", "NL"}

\* t.find(c) + 1
Find(t, c) == IF \E i \in 1..Len(t) : t[i] = c THEN CHOOSE i \in 1..Len(t) : t[i] = c /\ \A j \in 1..(i - 1) : t[j] # c ELSE 0
\* t.split(c)[0]
Before(t, c) == IF Find(t, c) = 0 THEN t ELSE SubSeq(t, 1, Find(t, c) - 1)
\* what follows the first c in t
After(t, c) == SubSeq(t, Find(t, c) + 1, Len(t))
\* t.strip()
Strip(t) == LET ink == {i \in 1..Len(t) : t[i] \notin Whitespace} IN IF ink = {} THEN <<>> ELSE SubSeq(t, CHOOSE i \in ink : \A j \in ink : i <= j, CHOOSE i \in ink : \A j \in ink : j <= i)

\* tool_name as parse_tool_call returns it; NoName for (None, None)
NoName == <<"None">>
ParseToolName(reply) ==
    IF Find(reply, "TOOL:") = 0 THEN NoName
    ELSE LET tool_part == Strip(Before(After(reply, "TOOL:"), "TOOL:"))
             tool_name == IF Find(tool_part, "ARGS:") # 0 THEN Strip(Before(tool_part, "ARGS:")) ELSE Strip(Before(tool_part, "NL"))
         IN IF Find(tool_name, "(") # 0 THEN Before(tool_name, "(") ELSE tool_name

ParseToolCall ==
    /\ parsed = NoName
    /\ parsed' = ParseToolName(modelReply)
    /\ UNCHANGED <<modelReply, sweep, cli, overlapVars>>
    /\ UNCHANGED baseVars

NoReply == modelReply = <<>> /\ parsed = NoName
ParseInit == modelReply \in Contents /\ parsed = NoName
ParseNext == ParseToolCall

\* C21: the parsed tool name holds no newline and no parenthesis and neither
\* starts nor ends with whitespace.
C21_CleanToolName ==
    parsed # NoName /\ parsed # <<>> =>
        /\ \A i \in 1..Len(parsed) : parsed[i] \notin {"NL", "(", ")"}
        /\ parsed[1] \notin Whitespace
        /\ parsed[Len(parsed)] \notin Whitespace

(***************************************************************************)
(* Batch probes: the NTP sweep (two concurrent rounds) and the IXP sweep    *)
(* (one loop, each target retried inside its own test)                     *)
(***************************************************************************)
Targets == 1..MaxTargets
NtpOutcomes == {"ok", "timeout", "network", "invalid_target", "execution"}
IxpFailures == {"timeout", "connection_failed", "http_status"}
NoSweep == [kind |-> "-", phase |-> "idle", retry_failed |-> FALSE, waiting |-> {}, reachable |-> <<>>, unreachable |-> <<>>, retry_reachable |-> <<>>, retry_unreachable |-> <<>>, tried |-> [t \in Targets |-> <<>>], summary |-> <<>>]
Failure(server, error_type) == [server |-> server, error_type |-> error_type]
AllFailed(old, new) == old \o new
\* unreachable_servers = retry_unreachable
Remaining(old, new) == new

Summarize(total, reachable, unreachable) == [total |-> total, successful |-> Len(reachable), failed |-> Len(unreachable)]

\* check_ntp_servers up to the submission of the first round
CheckNtpServers(retry_failed) ==
    /\ sweep.phase = "idle"
    /\ sweep' = [NoSweep EXCEPT !.kind = "ntp", !.phase = "first", !.retry_failed = retry_failed, !.waiting = Targets]
    /\ UNCHANGED <<baseVars, parseVars, cli, overlapVars>>

\* as_completed yields the future of server t, in either round
NtpResult(t, outcome) ==
    /\ sweep.kind = "ntp" /\ sweep.phase \in {"first", "retry"}
    /\ t \in sweep.waiting
    /\ LET ok == outcome = "ok"
           first == sweep.phase = "first"
       IN sweep' = [sweep EXCEPT !.waiting = @ \ {t},
                                 !.tried[t] = Append(@, outcome),
                                 !.reachable = IF ok /\ first THEN Append(@, t) ELSE @,
                                 !.unreachable = IF ~ok /\ first THEN Append(@, Failure(t, outcome)) ELSE @,
                                 !.retry_reachable = IF ok /\ ~first THEN Append(@, t) ELSE @,
                                 !.retry_unreachable = IF ~ok /\ ~first THEN Append(@, Failure(t, outcome)) ELSE @]
    /\ UNCHANGED <<baseVars, parseVars, cli, overlapVars>>

\* the end of a round: the retry round is started, or the lists are merged
\* and the summary is computed
NtpRoundEnds ==
    /\ sweep.kind = "ntp" /\ sweep.phase \in {"first", "retry"}
    /\ sweep.waiting = {}
    /\ IF sweep.phase = "first" /\ sweep.retry_failed /\ sweep.unreachable # <<>>
       THEN sweep' = [sweep EXCEPT !.phase = "retry", !.waiting = {sweep.unreachable[i].server : i \in 1..Len(sweep.unreachable)}]
       ELSE LET reachable == sweep.reachable \o sweep.retry_reachable
                unreachable == IF sweep.phase = "retry" THEN Remaining(sweep.unreachable, sweep.retry_unreachable) ELSE sweep.unreachable
            IN sweep' = [sweep EXCEPT !.phase = "done", !.reachable = reachable, !.unreachable = unreachable,
                                      !.summary = Summarize(MaxTargets, reachable, unreachable)]
    /\ UNCHANGED <<baseVars, parseVars, cli, overlapVars>>

\* monitor_ixp_connectivity up to its loop
MonitorIxpConnectivity ==
    /\ sweep.phase = "idle"
    /\ sweep' = [NoSweep EXCEPT !.kind = "ixp", !.phase = "loop", !.waiting = Targets]
    /\ UNCHANGED <<baseVars, parseVars, cli, overlapVars>>

\* one pass of the loop: _test_ixp_connectivity on the next endpoint, whose
\* first k attempts fail with err; then the result is filed
TestIxpConnectivity(k, err) ==
    /\ sweep.kind = "ixp" /\ sweep.phase = "loop" /\ sweep.waiting # {}
    /\ LET t == CHOOSE x \in sweep.waiting : \A y \in sweep.waiting : x <= y
           success == k <= retries
           attempts == [i \in 1..(IF success THEN k + 1 ELSE retries + 1) |-> IF i <= k THEN err ELSE "ok"]
       IN sweep' = [sweep EXCEPT !.waiting = @ \ {t},
                                 !.tried[t] = attempts,
                                 !.reachable = IF success THEN Append(@, t) ELSE @,
                                 !.unreachable = IF success THEN @ ELSE Append(@, Failure(t, err))]
    /\ UNCHANGED <<baseVars, parseVars, cli, overlapVars>>

\* after the loop: the summary
IxpLoopEnds ==
    /\ sweep.kind = "ixp" /\ sweep.phase = "loop" /\ sweep.waiting = {}
    /\ sweep' = [sweep EXCEPT !.phase = "done", !.summary = Summarize(MaxTargets, sweep.reachable, sweep.unreachable)]
    /\ UNCHANGED <<baseVars, parseVars, cli, overlapVars>>

\* the caller has the result
TakeSweep ==
    /\ sweep.phase = "done"
    /\ sweep' = NoSweep
    /\ UNCHANGED <<baseVars, parseVars, cli, overlapVars>>

BatchInit == sweep = NoSweep
BatchNext ==
    \/ \E retry_failed \in BOOLEAN : CheckNtpServers(retry_failed)
    \/ \E t \in Targets, outcome \in NtpOutcomes : NtpResult(t, outcome)
    \/ NtpRoundEnds
    \/ MonitorIxpConnectivity
    \/ \E k \in 0..(retries + 1), err \in IxpFailures : TestIxpConnectivity(k, err)
    \/ IxpLoopEnds
    \/ TakeSweep

\* failures after which the specification allows another attempt
Retryable == {"timeout", "network", "connection_failed"}

\* C22: a target is probed again only after a failure that is a timeout or a
\* connection failure; after any other failure it is not attempted again.
C22_RetryOnlyNetwork ==
    \A t \in Targets : \A i \in 1..(Len(sweep.tried[t]) - 1) : sweep.tried[t][i] \in Retryable

\* the servers named in a list of failures
Servers(list) == [i \in 1..Len(list) |-> list[i].server]

\* C23: when a sweep returns, every target is in exactly one of the two lists
\* and the summary counts are the lengths of the lists and add up to the
\* number of targets.
C23_ExactSummary ==
    sweep.phase = "done" =>
        LET r == sweep.reachable
            u == Servers(sweep.unreachable)
        IN /\ \A t \in Targets : Cardinality({i \in 1..Len(r) : r[i] = t}) + Cardinality({i \in 1..Len(u) : u[i] = t}) = 1
           /\ sweep.summary.successful = Len(r)
           /\ sweep.summary.failed = Len(u)
           /\ sweep.summary.successful + sweep.summary.failed = sweep.summary.total
           /\ sweep.summary.total = MaxTargets

\* an NTP sweep returned after a retry round in which a server recovered and
\* another one failed again
C23_Witness ==
    /\ sweep.phase = "done" /\ sweep.kind = "ntp"
    /\ sweep.retry_reachable # <<>>
    /\ sweep.retry_unreachable # <<>>

(***************************************************************************)
(* instability.py: the manual and test subcommands and the exit code       *)
(***************************************************************************)
NoExit == [mode |-> "-", ran |-> FALSE, success |-> FALSE, returned |-> 0, exit |-> -1]
\* main hands back a value only for run-tests; None leaves the process with 0
ExitCode(mode, value) == IF mode = "run-tests" THEN value ELSE 0

\* python instability.py manual [tool_name]; "-" stands for no name, "all"
\* for the comprehensive run
RunManualMode(tool_name, outcome) ==
    /\ Idle /\ cli = NoExit
    /\ LET found == tool_name \in ToolNames /\ GetTool(tool_name) # 0
           d == ExecuteToolResult(tool_name, EmptyMap, "manual", outcome)
       IN /\ call' = IF found
                     THEN [state |-> "returned", tool_name |-> tool_name, parameters |-> EmptyMap, mode |-> "manual", called |-> d.called,
                           passed |-> d.passed, probeRaised |-> d.probeRaised, result |-> d.result]
                     ELSE call
          /\ cli' = [mode |-> "manual", ran |-> found, success |-> found /\ d.result.kind = "return" /\ d.result.env.success,
                     returned |-> 0, exit |-> ExitCode("manual", 0)]
    /\ UNCHANGED <<objs, tools, categories, external_tools, regResult, regMeta, mcp_mode>>
    /\ UNCHANGED <<srvVars, sessVars, ipVars, sanVars, fileVars, chatVars, parseVars, sweep, overlapVars>>

\* python instability.py test; error is what run_startup_sequence raised
RunTestMode(startup_success, error) ==
    /\ Idle /\ cli = NoExit
    /\ LET value == IF error = "ImportError" THEN 0 ELSE IF error = "Exception" \/ ~startup_success THEN 1 ELSE 0
       IN cli' = [mode |-> "test", ran |-> error = "-", success |-> error = "-" /\ startup_success, returned |-> value, exit |-> ExitCode("test", value)]
    /\ UNCHANGED <<baseVars, parseVars, sweep, overlapVars>>

CliInit == cli = NoExit
CliNext ==
    \/ cli = NoExit /\ RegNext
    \/ \E tool_name \in ToolNames \cup {"-", "all"} : \E outcome \in (IF tool_name \in ToolNames THEN OutcomesOf(tool_name, EmptyMap, "manual") ELSE {"-"}) : RunManualMode(tool_name, outcome)
    \/ \E startup_success \in BOOLEAN, error \in {"-", "ImportError", "Exception"} : RunTestMode(startup_success, error)

\* C24: running a named tool exits with 0 when its envelope reports success
\* and with 1 when it reports failure; the self-test exits with 0 only when
\* the startup sequence succeeded.
C24_ExitCodeReflectsOutcome ==
    /\ cli.mode = "manual" /\ cli.ran => cli.exit = (IF cli.success THEN 0 ELSE 1)
    /\ cli.mode = "test" /\ cli.exit = 0 => cli.success

(***************************************************************************)
(* Specifications                                                          *)
(***************************************************************************)
\* The registry as a library (either MCP_MODE), the protocol server (which
\* sets MCP_MODE at start, authentication on or off), the session manager and
\* the IP tracker.
Quiet == RegInit /\ SrvInit /\ SessInit /\ IpInit /\ ChatInit /\ BatchInit /\ CliInit /\ TurnInit /\ RaceInit
Start == Quiet /\ NoText /\ NoReply

Init       == Start /\ mcp_mode \in BOOLEAN /\ auth_enabled = TRUE
ServerInit == Start /\ mcp_mode = TRUE /\ auth_enabled \in BOOLEAN
OneInit    == Start /\ mcp_mode = FALSE /\ auth_enabled = TRUE
TextInit   == Quiet /\ SanInit /\ NoReply /\ mcp_mode = TRUE /\ auth_enabled = TRUE
ReplyInit  == Quiet /\ NoText /\ ParseInit /\ mcp_mode = FALSE /\ auth_enabled = TRUE

Spec     == Init /\ [][RegNext]_vars
SrvSpec  == ServerInit /\ [][SrvNext]_vars
SessSpec == OneInit /\ [][SessNext]_vars
IpSpec   == OneInit /\ [][IpNext]_vars
SanSpec  == TextInit /\ [][SanNext]_vars
IpFileSpec == OneInit /\ [][IpFileNext]_vars
ChatSpec == OneInit /\ [][ChatNext]_vars
ParseSpec == ReplyInit /\ [][ParseNext]_vars
BatchSpec == OneInit /\ [][BatchNext]_vars
CliSpec == OneInit /\ [][CliNext]_vars
TurnSpec == OneInit /\ [][TurnNext]_vars
RaceSpec == OneInit /\ [][RaceNext]_vars

====
